---- MODULE Spec2Model ----
(***************************************************************************)
(* The d3bugr gateway (server.py): a Flask application that serves the     *)
(* documentation of a fixed set of tool services, forwards                 *)
(* /call/<service>/<endpoint> to the registered service and polls every    *)
(* service's /health for /status.                                          *)
(*                                                                         *)
(* Each handler runs in its own handling unit.  A handler is one atomic    *)
(* step up to the point where it blocks on an outbound HTTP call; the      *)
(* completion of that call is a second step.  A handler that has produced  *)
(* its response stays in "done" until the response is delivered, which     *)
(* frees the unit.                                                         *)
(***************************************************************************)
EXTENDS Integers, Sequences, FiniteSets, TLC

VARIABLES
    SERVICES,     \* server.py:8   the registry, name -> base address
    DOCS,         \* server.py:23  DOCS['services'], name -> descriptor
    secret,       \* the shared secret the process was configured with
    call_pc,      \* call_service: "idle", "waiting" (blocked in requests), "done"
    call_req,     \* call_service: the inbound request
    call_out,     \* call_service: the outbound requests issued so far
    call_up,      \* call_service: what the outbound call produced
    call_resp,    \* call_service: the response returned to the caller
    st_pc,        \* status: "idle", "probing", "done"
    st_req,       \* status: the inbound request
    st_i,         \* status: position of the loop in SERVICES.items()
    st_probes,    \* status: the outcome of each probe issued so far, in order
    results,      \* status: the local dict `results`
    st_elapsed,   \* status: seconds the handler has spent blocked in probes
    st_slowest,   \* status: the longest a single probe of this request took
    st_resp,      \* status: the response returned to the caller
    doc_pc,       \* documentation handlers and /health: "idle", "done"
    doc_req,      \* documentation handlers: the inbound request
    doc_resp      \* documentation handlers: the response returned

call_vars == <<call_pc, call_req, call_out, call_up, call_resp>>
st_vars == <<st_pc, st_req, st_i, st_probes, results, st_elapsed, st_slowest, st_resp>>
doc_vars == <<doc_pc, doc_req, doc_resp>>
shared_vars == <<SERVICES, DOCS, secret>>
vars == <<SERVICES, DOCS, secret, call_pc, call_req, call_out, call_up, call_resp,
          st_pc, st_req, st_i, st_probes, results, st_elapsed, st_slowest, st_resp,
          doc_pc, doc_req, doc_resp>>

None == "<none>"

(***************************************************************************)
(* Bounds.                                                                 *)
(***************************************************************************)
\* how many of the eight registry entries of server.py:8-20 the model loads
MaxServices == 3

(***************************************************************************)
(* JSON values, tagged: what json.loads returns and json.dumps accepts.    *)
(***************************************************************************)
JNull == <<"null">>
JBool(b) == <<"bool", b>>
JNum(n) == <<"num", n>>
JStr(s) == <<"str", s>>
JArr(items) == <<"arr", items>>
JObj(pairs) == <<"obj", pairs>>

JTarget == JObj(<< <<"target", JStr("example.com")>> >>)
JUpError == JObj(<< <<"detail", JStr("no such scan")>> >>)

\* the JSON texts the model uses, with the value each denotes
JsonTable ==
    << <<"null", JNull>>,
       <<"false", JBool(FALSE)>>,
       <<"0", JNum(0)>>,
       <<"\"\"", JStr("")>>,
       <<"[]", JArr(<< >>)>>,
       <<"{}", JObj(<< >>)>>,
       <<"[1]", JArr(<<JNum(1)>>)>>,
       <<"{\"target\": \"example.com\"}", JTarget>>,
       <<"{\"detail\": \"no such scan\"}", JUpError>> >>

\* json.loads: the value of a JSON text, or a ValueError for any other text
JsonLoads(text) ==
    IF \E i \in 1..Len(JsonTable) : JsonTable[i][1] = text
    THEN [ok |-> TRUE,
          value |-> JsonTable[CHOOSE i \in 1..Len(JsonTable) : JsonTable[i][1] = text][2]]
    ELSE [ok |-> FALSE, value |-> JNull]

\* json.dumps: the text of a JSON value
JsonDumps(value) ==
    JsonTable[CHOOSE i \in 1..Len(JsonTable) : JsonTable[i][2] = value][1]

\* Python truth value of a decoded JSON value (the left operand of `or`)
Truthy(value) ==
    CASE value[1] = "null" -> FALSE
      [] value[1] = "bool" -> value[2]
      [] value[1] = "num" -> value[2] # 0
      [] value[1] = "str" -> value[2] # ""
      [] value[1] = "arr" -> Len(value[2]) > 0
      [] value[1] = "obj" -> Len(value[2]) > 0

(***************************************************************************)
(* The registry and the descriptors, server.py:8-172.                      *)
(***************************************************************************)
\* the keys of SERVICES in insertion order (the order dict iteration follows)
ServiceOrder ==
    <<"nmap", "argus-recon", "dns-tools", "theharvester",
      "nuclei", "sqlmap", "bhp", "shodan">>

ServiceUrl(name) ==
    CASE name = "nmap" -> "https://nmap-production.up.railway.app"
      [] name = "argus-recon" -> "https://argus-recon-production.up.railway.app"
      [] name = "dns-tools" -> "https://dns-tools-api-production.up.railway.app"
      [] name = "theharvester" -> "https://theharvester-production.up.railway.app"
      [] name = "nuclei" -> "https://nuclei-production-d931.up.railway.app"
      [] name = "sqlmap" -> "https://sqlmap-api-production.up.railway.app"
      [] name = "bhp" -> "https://bhp-api-production.up.railway.app"
      [] name = "shodan" -> "https://divine-trust-production.up.railway.app"

\* how many endpoints the descriptor of a service lists
ServiceEndpoints(name) ==
    CASE name = "nmap" -> 4
      [] name = "argus-recon" -> 4
      [] name = "dns-tools" -> 6
      [] name = "theharvester" -> 5
      [] name = "nuclei" -> 6
      [] name = "sqlmap" -> 5
      [] name = "bhp" -> 10
      [] name = "shodan" -> 9

ServiceDescription(name) ==
    CASE name = "nmap" -> "Port scanning and service detection"
      [] name = "argus-recon" -> "Asset discovery and enumeration"
      [] name = "dns-tools" -> "DNS enumeration and zone transfers"
      [] name = "theharvester" -> "Email and subdomain harvesting"
      [] name = "nuclei" -> "Template-based vulnerability scanner"
      [] name = "sqlmap" -> "SQL injection testing"
      [] name = "bhp" -> "XSS, SSRF, IDOR, encoding, payloads"
      [] name = "shodan" -> "Shodan + CVE database"

\* the entries the model loads
Loaded == { ServiceOrder[i] : i \in 1..MaxServices }

SERVICES0 == [name \in Loaded |-> ServiceUrl(name)]

DOCS0 ==
    [name \in Loaded |->
        [url |-> SERVICES0[name], description |-> ServiceDescription(name),
         endpoints |-> ServiceEndpoints(name)]]

\* the keys of DOCS['services'] in insertion order
DocOrder ==
    <<"nmap", "nuclei", "sqlmap", "bhp",
      "dns-tools", "theharvester", "argus-recon", "shodan">>

\* list(d.keys()): the keys of dict d, in the insertion order `order`
RECURSIVE Keys(_, _)
Keys(d, order) ==
    IF order = << >> THEN << >>
    ELSE IF Head(order) \in DOMAIN d
         THEN <<Head(order)>> \o Keys(d, Tail(order))
         ELSE Keys(d, Tail(order))

\* a list of strings as a JSON array
StrList(names) == JArr([i \in 1..Len(names) |-> JStr(names[i])])

(***************************************************************************)
(* The access gate (section 4.4 of the specification).  server.py holds no *)
(* gate; with no secret configured the gate allows everything, which is    *)
(* what server.py does.                                                    *)
(***************************************************************************)
SecretValue == "s3cret"
WrongKey == "guess"

\* the key a request provides: the header takes precedence over the query
ProvidedKey(req) == IF req.header # None THEN req.header ELSE req.query

\* authorize, letting a request that sends no key through
authorize_missing_allowed(configured, providedKey) ==
    IF configured = None THEN "allow"
    ELSE IF providedKey = None THEN "allow"
    ELSE IF providedKey # configured THEN "invalid"
    ELSE "allow"

authorize(configured, providedKey) ==
    IF configured = None THEN "allow"
    ELSE IF providedKey = None THEN "missing"
    ELSE IF providedKey # configured THEN "invalid"
    ELSE "allow"

RejectResponse(reason) ==
    IF reason = "missing"
    THEN [status |-> 401, body |-> <<"json", JObj(<< <<"error", JStr("API key required")>> >>)>>]
    ELSE [status |-> 403, body |-> <<"json", JObj(<< <<"error", JStr("Invalid API key")>> >>)>>]

(***************************************************************************)
(* What the libraries under call_service do.                               *)
(***************************************************************************)
\* the classes of requests' exception hierarchy each exception is an instance of
ExcClasses(exc) ==
    CASE exc = "ReadTimeout" -> {"Timeout"}
      [] exc = "ConnectTimeout" -> {"ConnectionError", "Timeout"}
      [] exc = "ConnectionError" -> {"ConnectionError"}
      [] OTHER -> {}

\* str(e)
ExcText(exc) ==
    CASE exc = "ReadTimeout" -> "Read timed out."
      [] exc = "ConnectTimeout" -> "Connection to host timed out."
      [] exc = "ConnectionError" -> "Connection refused"
      [] exc = "TooManyRedirects" -> "Exceeded 30 redirects."
      [] exc = "BadRequest" -> "400 Bad Request: Failed to decode JSON object"
      [] exc = "UnsupportedMediaType" -> "415 Unsupported Media Type: Did not attempt to load JSON data"
      [] OTHER -> exc

\* flask's request.json.  body is None for a request without a JSON content
\* type, else the text sent with Content-Type: application/json.  `strict`
\* is the installed Flask: releases from 2.1 raise for a non-JSON request,
\* earlier ones return None.
RequestJson(body, strict) ==
    IF body = None
    THEN IF strict
         THEN [raised |-> TRUE, exc |-> "UnsupportedMediaType", value |-> JNull]
         ELSE [raised |-> FALSE, exc |-> None, value |-> JNull]
    ELSE IF JsonLoads(body).ok
         THEN [raised |-> FALSE, exc |-> None, value |-> JsonLoads(body).value]
         ELSE [raised |-> TRUE, exc |-> "BadRequest", value |-> JNull]

\* request.args handed to requests as params=: requests reads a mapping through
\* .items(), and MultiDict.items() yields each key once, with its first value
RECURSIVE MultiDictItems(_, _)
MultiDictItems(args, seen) ==
    IF args = << >> THEN << >>
    ELSE IF Head(args)[1] \in seen
         THEN MultiDictItems(Tail(args), seen)
         ELSE <<Head(args)>> \o MultiDictItems(Tail(args), seen \cup {Head(args)[1]})

(***************************************************************************)
(* call_service, server.py:216-253.                                        *)
(***************************************************************************)
PostTimeout == 600
GetTimeout == 60

NoOutcome == <<"none", 0, "">>
NoResp == [status |-> 0, body |-> <<"none", "">>]
NoReq == [service |-> None, endpoint |-> None, method |-> None, body |-> None,
          args |-> << >>, header |-> None, query |-> None]

Response(status, text) == <<"response", status, text>>
Raised(exc) == <<"exception", 0, exc>>

\* NotFound, listing the addresses instead of the names
NotFound_values(service) ==
    [status |-> 404,
     body |-> <<"json", JObj(<< <<"error", JStr("Service " \o service \o " not found")>>,
                                <<"available",
                                  StrList([i \in 1..Len(Keys(SERVICES, ServiceOrder)) |->
                                             SERVICES[Keys(SERVICES, ServiceOrder)[i]]])>> >>)>>]

\* server.py:226-230
NotFound(service) ==
    [status |-> 404,
     body |-> <<"json", JObj(<< <<"error", JStr("Service " \o service \o " not found")>>,
                                <<"available", StrList(Keys(SERVICES, ServiceOrder))>> >>)>>]

ErrorBody(text, service, endpoint) ==
    <<"json", JObj(<< <<"error", JStr(text)>>,
                      <<"service", JStr(service)>>,
                      <<"endpoint", JStr(endpoint)>> >>)>>

\* ClassifyException with the ConnectionError clause tried first
ClassifyException_connection_first(exc, service, endpoint) ==
    IF "ConnectionError" \in ExcClasses(exc)
    THEN [status |-> 503, body |-> ErrorBody("Service unavailable", service, endpoint)]
    ELSE IF "Timeout" \in ExcClasses(exc)
    THEN [status |-> 504, body |-> ErrorBody("Service timeout", service, endpoint)]
    ELSE [status |-> 500, body |-> ErrorBody(ExcText(exc), service, endpoint)]

\* server.py:248-253: the except clauses, tried in order
ClassifyException(exc, service, endpoint) ==
    IF "Timeout" \in ExcClasses(exc)
    THEN [status |-> 504, body |-> ErrorBody("Service timeout", service, endpoint)]
    ELSE IF "ConnectionError" \in ExcClasses(exc)
    THEN [status |-> 503, body |-> ErrorBody("Service unavailable", service, endpoint)]
    ELSE [status |-> 500, body |-> ErrorBody(ExcText(exc), service, endpoint)]

\* RelayResponse, reporting an upstream server error as 502
RelayResponse_reclassify(upStatus, upText) ==
    IF JsonLoads(upText).ok
    THEN [status |-> IF upStatus >= 500 THEN 502 ELSE upStatus,
          body |-> <<"json", JsonLoads(upText).value>>]
    ELSE [status |-> IF upStatus >= 500 THEN 502 ELSE upStatus,
          body |-> <<"text", upText>>]

\* server.py:242-246: JSON if the upstream body parses, the text otherwise
RelayResponse(upStatus, upText) ==
    IF JsonLoads(upText).ok
    THEN [status |-> upStatus, body |-> <<"json", JsonLoads(upText).value>>]
    ELSE [status |-> upStatus, body |-> <<"text", upText>>]

\* server.py:237: data = request.json or {}
PostData(value) == IF Truthy(value) THEN value ELSE JObj(<< >>)

\* server.py:238
PostRequest(base, endpoint, data) ==
    [method |-> "POST", base |-> base, path |-> endpoint, json |-> JsonDumps(data),
     params |-> << >>, timeout |-> PostTimeout]

\* server.py:240
GetRequest(base, endpoint, args) ==
    [method |-> "GET", base |-> base, path |-> endpoint, json |-> None,
     params |-> MultiDictItems(args, {}), timeout |-> GetTimeout]

CallDone(resp) ==
    /\ call_pc' = "done"
    /\ call_resp' = resp
    /\ UNCHANGED <<call_out, call_up>>

CallSend(out) ==
    /\ call_pc' = "waiting"
    /\ call_out' = Append(call_out, out)
    /\ UNCHANGED <<call_up, call_resp>>

\* the gate (section 4.4), then the handler up to the point where it blocks
\* in requests.post / requests.get
call_service(req, strict) ==
    /\ call_pc = "idle"
    /\ call_req' = req
    /\ IF authorize(secret, ProvidedKey(req)) # "allow"
       THEN CallDone(RejectResponse(authorize(secret, ProvidedKey(req))))
       ELSE IF req.service \notin DOMAIN SERVICES
       THEN CallDone(NotFound(req.service))
       ELSE IF req.method = "POST"
       THEN IF RequestJson(req.body, strict).raised
            THEN CallDone(ClassifyException(RequestJson(req.body, strict).exc,
                                            req.service, req.endpoint))
            ELSE CallSend(PostRequest(SERVICES[req.service], req.endpoint,
                                      PostData(RequestJson(req.body, strict).value)))
       ELSE CallSend(GetRequest(SERVICES[req.service], req.endpoint, req.args))
    /\ UNCHANGED <<shared_vars, st_vars, doc_vars>>

\* the outbound call returns a response or raises
call_service_resume(outcome) ==
    /\ call_pc = "waiting"
    /\ call_up' = outcome
    /\ call_pc' = "done"
    /\ call_resp' = IF outcome[1] = "response"
                    THEN RelayResponse(outcome[2], outcome[3])
                    ELSE ClassifyException(outcome[3], call_req.service, call_req.endpoint)
    /\ UNCHANGED <<call_req, call_out, shared_vars, st_vars, doc_vars>>

\* the response is delivered and the handling unit is free again
call_service_return ==
    /\ call_pc = "done"
    /\ call_pc' = "idle"
    /\ call_req' = NoReq
    /\ call_out' = << >>
    /\ call_up' = NoOutcome
    /\ call_resp' = NoResp
    /\ UNCHANGED <<shared_vars, st_vars, doc_vars>>

(***************************************************************************)
(* status, server.py:255-265.                                              *)
(***************************************************************************)
ProbeTimeout == 5

\* results[name] = value on a dict kept as its items in insertion order
RECURSIVE DictSet(_, _, _)
DictSet(d, key, value) ==
    IF d = << >> THEN << <<key, value>> >>
    ELSE IF Head(d)[1] = key
         THEN << <<key, value>> >> \o Tail(d)
         ELSE <<Head(d)>> \o DictSet(Tail(d), key, value)

\* ProbeEntry, taking every 2xx for online
ProbeEntry_any_2xx(outcome, url) ==
    IF outcome[1] = "response"
    THEN [status |-> IF outcome[2] < 300 THEN "online" ELSE "error", url |-> url]
    ELSE [status |-> "offline", url |-> url]

\* server.py:262 and 264: the entry of one service
ProbeEntry(outcome, url) ==
    IF outcome[1] = "response"
    THEN [status |-> IF outcome[2] = 200 THEN "online" ELSE "error", url |-> url]
    ELSE [status |-> "offline", url |-> url]

\* ProbeRecord, with an except clause that records nothing
ProbeRecord_except_pass(d, name, outcome, url) ==
    IF outcome[1] = "response"
    THEN DictSet(d, name,
                 [status |-> IF outcome[2] = 200 THEN "online" ELSE "error", url |-> url])
    ELSE d

\* server.py:260-264: one pass of the loop body
ProbeRecord(d, name, outcome, url) == DictSet(d, name, ProbeEntry(outcome, url))

StatusResponse(d) == [status |-> 200, body |-> <<"results", d>>]

NoStReq == [header |-> None, query |-> None]

\* the gate (section 4.4), then the handler up to the first requests.get
status(req) ==
    /\ st_pc = "idle"
    /\ st_req' = req
    /\ IF authorize(secret, ProvidedKey(req)) # "allow"
       THEN /\ st_pc' = "done"
            /\ st_resp' = RejectResponse(authorize(secret, ProvidedKey(req)))
            /\ UNCHANGED <<st_i, st_probes, results, st_elapsed, st_slowest>>
       ELSE /\ results' = << >>
            /\ st_probes' = << >>
            /\ st_elapsed' = 0
            /\ st_slowest' = 0
            /\ IF Keys(SERVICES, ServiceOrder) = << >>
               THEN st_pc' = "done" /\ st_i' = 0 /\ st_resp' = StatusResponse(<< >>)
               ELSE st_pc' = "probing" /\ st_i' = 1 /\ UNCHANGED st_resp
    /\ UNCHANGED <<shared_vars, call_vars, doc_vars>>

\* status_probe, keeping the probed address in the registry
status_probe_writes_registry(outcome, latency) ==
    /\ st_pc = "probing"
    /\ LET order == Keys(SERVICES, ServiceOrder)
           name == order[st_i]
       IN /\ SERVICES' = [SERVICES EXCEPT ![name] = SERVICES[name] \o "/health"]
          /\ results' = DictSet(results, name,
                                [status |-> IF outcome[1] # "response" THEN "offline"
                                            ELSE IF outcome[2] = 200 THEN "online"
                                            ELSE "error",
                                 url |-> SERVICES[name]])
          /\ st_probes' = Append(st_probes, outcome)
          /\ st_elapsed' = st_elapsed + latency
          /\ st_slowest' = IF latency > st_slowest THEN latency ELSE st_slowest
          /\ IF st_i = Len(order)
             THEN st_pc' = "done" /\ st_i' = 0 /\ st_resp' = StatusResponse(results')
             ELSE st_pc' = "probing" /\ st_i' = st_i + 1 /\ UNCHANGED st_resp
    /\ UNCHANGED <<st_req, DOCS, secret, call_vars, doc_vars>>

\* the probe in flight returns or raises after `latency` seconds; the loop
\* records it and issues the next probe, or returns the snapshot
status_probe(outcome, latency) ==
    /\ st_pc = "probing"
    /\ LET order == Keys(SERVICES, ServiceOrder)
           name == order[st_i]
       IN /\ results' = ProbeRecord(results, name, outcome, SERVICES[name])
          /\ st_probes' = Append(st_probes, outcome)
          /\ st_elapsed' = st_elapsed + latency
          /\ st_slowest' = IF latency > st_slowest THEN latency ELSE st_slowest
          /\ IF st_i = Len(order)
             THEN st_pc' = "done" /\ st_i' = 0 /\ st_resp' = StatusResponse(results')
             ELSE st_pc' = "probing" /\ st_i' = st_i + 1 /\ UNCHANGED st_resp
    /\ UNCHANGED <<st_req, shared_vars, call_vars, doc_vars>>

status_return ==
    /\ st_pc = "done"
    /\ st_pc' = "idle"
    /\ st_req' = NoStReq
    /\ st_i' = 0
    /\ st_probes' = << >>
    /\ results' = << >>
    /\ st_elapsed' = 0
    /\ st_slowest' = 0
    /\ st_resp' = NoResp
    /\ UNCHANGED <<shared_vars, call_vars, doc_vars>>

(***************************************************************************)
(* The documentation handlers and /health, server.py:176-212, 267-269.     *)
(***************************************************************************)
index == [status |-> 200, body |-> <<"DOCS", DOCS>>]

docs == [status |-> 200, body |-> <<"DOCS", DOCS>>]

context == [status |-> 200, body |-> <<"context", "what, why, when, workflow">>]

list_services ==
    [status |-> 200,
     body |-> <<"services", [name \in DOMAIN DOCS |->
                    [url |-> DOCS[name].url, description |-> DOCS[name].description]]>>]

service_detail(service) ==
    IF service \in DOMAIN DOCS
    THEN [status |-> 200, body |-> <<"descriptor", DOCS[service]>>]
    ELSE [status |-> 404,
          body |-> <<"json", JObj(<< <<"error", JStr("Service " \o service \o " not found")>>,
                                     <<"available", StrList(Keys(DOCS, DocOrder))>> >>)>>]

mcp == [status |-> 200, body |-> <<"mcp", "mcp__d3bugr__">>]

workflow == [status |-> 200, body |-> <<"workflow", "recon, scanning, exploitation, intelligence">>]

health == [status |-> 200, body |-> <<"text", "ok">>]

DocRoutes == {"index", "docs", "context", "list_services", "service_detail", "mcp", "workflow"}

Dispatch(route, service) ==
    CASE route = "index" -> index
      [] route = "docs" -> docs
      [] route = "context" -> context
      [] route = "list_services" -> list_services
      [] route = "service_detail" -> service_detail(service)
      [] route = "mcp" -> mcp
      [] route = "workflow" -> workflow
      [] route = "health" -> health

NoDocReq == [route |-> None, service |-> None, header |-> None, query |-> None]

\* a documentation request: the gate, then the handler, which never blocks
docs_request(req) ==
    /\ doc_pc = "idle"
    /\ req.route \in DocRoutes
    /\ doc_pc' = "done"
    /\ doc_req' = req
    /\ doc_resp' = IF authorize(secret, ProvidedKey(req)) # "allow"
                   THEN RejectResponse(authorize(secret, ProvidedKey(req)))
                   ELSE Dispatch(req.route, req.service)
    /\ UNCHANGED <<shared_vars, call_vars, st_vars>>

\* the liveness check: no gate
health_request(req) ==
    /\ doc_pc = "idle"
    /\ req.route = "health"
    /\ doc_pc' = "done"
    /\ doc_req' = req
    /\ doc_resp' = Dispatch(req.route, req.service)
    /\ UNCHANGED <<shared_vars, call_vars, st_vars>>

docs_return ==
    /\ doc_pc = "done"
    /\ doc_pc' = "idle"
    /\ doc_req' = NoDocReq
    /\ doc_resp' = NoResp
    /\ UNCHANGED <<shared_vars, call_vars, st_vars>>

(***************************************************************************)
(* Inputs.                                                                 *)
(***************************************************************************)
UnknownService == "unknown-xyz"

Endpoints == {"scan", "cve/CVE-2024-1234"}

\* <<header, query>>: the key sent in the header and the one in the query
Credentials ==
    { <<None, None>>, <<SecretValue, None>>, <<None, SecretValue>>,
      <<WrongKey, None>>, <<WrongKey, SecretValue>> }

\* POST bodies: None is a request without a JSON content type; the others
\* are sent as application/json ("" and "{bad" are not JSON)
PostBodies ==
    { None, "", "{bad", "null", "false", "0", "\"\"", "[]", "{}", "[1]",
      "{\"target\": \"example.com\"}" }

QueryArgs ==
    { << >>,
      << <<"ip", "1.2.3.4">> >>,
      << <<"ip", "1.2.3.4">>, <<"minify", "true">> >>,
      << <<"port", "80">>, <<"port", "443">> >> }

UpstreamTexts == { "{\"target\": \"example.com\"}", "{\"detail\": \"no such scan\"}",
                   "null", "", "<html>Bad Gateway</html>" }

UpstreamOutcomes ==
    { Response(code, text) : code \in {200, 201, 404, 500, 502}, text \in UpstreamTexts }
    \cup { Raised(exc) : exc \in {"ReadTimeout", "ConnectTimeout", "ConnectionError",
                                  "TooManyRedirects"} }

CallRequests(services, endpoints, bodies, args, creds) ==
    { [service |-> s, endpoint |-> e, method |-> "POST", body |-> b, args |-> << >>,
       header |-> c[1], query |-> c[2]] :
         s \in services, e \in endpoints, b \in bodies, c \in creds }
    \cup
    { [service |-> s, endpoint |-> e, method |-> "GET", body |-> None, args |-> a,
       header |-> c[1], query |-> c[2]] :
         s \in services, e \in endpoints, a \in args, c \in creds }

StatusRequests(creds) == { [header |-> c[1], query |-> c[2]] : c \in creds }

DocRequests(routes, services, creds) ==
    { [route |-> r, service |-> IF r = "service_detail" THEN s ELSE None,
       header |-> c[1], query |-> c[2]] :
         r \in routes, s \in services, c \in creds }

ProbeOutcomes ==
    { Response(code, "") : code \in {200, 204, 500} }
    \cup { Raised(exc) : exc \in {"ReadTimeout", "ConnectionError", "SSLError"} }

\* how long a probe can take: a timeout takes the whole budget
ProbeLatencies(outcome, fast) ==
    IF outcome[1] = "exception" /\ "Timeout" \in ExcClasses(outcome[3])
    THEN {ProbeTimeout}
    ELSE fast

(***************************************************************************)
(* Specifications.                                                         *)
(***************************************************************************)
Idle ==
    /\ call_pc = "idle" /\ call_req = NoReq /\ call_out = << >>
    /\ call_up = NoOutcome /\ call_resp = NoResp
    /\ st_pc = "idle" /\ st_req = NoStReq /\ st_i = 0 /\ st_probes = << >>
    /\ results = << >> /\ st_elapsed = 0 /\ st_slowest = 0 /\ st_resp = NoResp
    /\ doc_pc = "idle" /\ doc_req = NoDocReq /\ doc_resp = NoResp

Init ==
    /\ SERVICES = SERVICES0
    /\ DOCS = DOCS0
    /\ secret \in {None, SecretValue}
    /\ Idle

\* forward calls alone, over every input
NextCall ==
    \/ \E req \in CallRequests(Loaded \cup {UnknownService}, Endpoints, PostBodies,
                                QueryArgs, Credentials), strict \in BOOLEAN :
          call_service(req, strict)
    \/ \E outcome \in UpstreamOutcomes : call_service_resume(outcome)
    \/ call_service_return

SpecCall == Init /\ [][NextCall]_vars

\* health snapshots alone, over every probe outcome
NextStatus ==
    \/ \E req \in StatusRequests(Credentials) : status(req)
    \/ \E outcome \in ProbeOutcomes :
          \E latency \in ProbeLatencies(outcome, {1, 2}) : status_probe(outcome, latency)
    \/ status_return

SpecStatus == Init /\ [][NextStatus]_vars

\* every operation, one handling unit each, interleaved
Next ==
    \/ \E req \in CallRequests({"nmap", UnknownService}, {"scan"},
                                {None, "{\"target\": \"example.com\"}"}, {<< >>},
                                {<<None, None>>, <<SecretValue, None>>, <<WrongKey, None>>}),
          strict \in BOOLEAN :
          call_service(req, strict)
    \/ \E outcome \in {Response(200, "{\"target\": \"example.com\"}"),
                        Response(502, "<html>Bad Gateway</html>"),
                        Raised("ReadTimeout")} :
          call_service_resume(outcome)
    \/ call_service_return
    \/ \E req \in StatusRequests({<<None, None>>, <<SecretValue, None>>, <<WrongKey, None>>}) :
          status(req)
    \/ \E outcome \in {Response(200, ""), Raised("ReadTimeout")} :
          \E latency \in ProbeLatencies(outcome, {1}) : status_probe(outcome, latency)
    \/ status_return
    \/ \E req \in DocRequests(DocRoutes, {"nmap", UnknownService},
                               {<<None, None>>, <<None, SecretValue>>, <<WrongKey, SecretValue>>}) :
          docs_request(req)
    \/ \E req \in DocRequests({"health"}, {None}, {<<None, None>>, <<WrongKey, None>>}) :
          health_request(req)
    \/ docs_return

Spec == Init /\ [][Next]_vars

(***************************************************************************)
(* Properties.                                                             *)
(***************************************************************************)
\* the value of field `key` of a JSON object
Field(obj, key) ==
    obj[2][CHOOSE i \in 1..Len(obj[2]) : obj[2][i][1] = key][2]

HasField(obj, key) == \E i \in 1..Len(obj[2]) : obj[2][i][1] = key

\* the forward call in hand passed the gate and names a registered service
CallAllowed == authorize(secret, ProvidedKey(call_req)) = "allow"
CallRegistered == call_req.service \in Loaded
StatusAllowed == authorize(secret, ProvidedKey(st_req)) = "allow"

\* C1: when the upstream returned a response, the gateway answers with the
\* upstream's status code, whatever it is, and with the parsed JSON value if
\* the upstream body is JSON and the raw text if it is not.
C1_StatusPassThrough ==
    (call_pc = "done" /\ call_up[1] = "response") =>
        /\ call_resp.status = call_up[2]
        /\ \A i \in 1..Len(JsonTable) :
              JsonTable[i][1] = call_up[3] => call_resp.body = <<"json", JsonTable[i][2]>>
        /\ (\A i \in 1..Len(JsonTable) : JsonTable[i][1] # call_up[3])
              => call_resp.body = <<"text", call_up[3]>>

\* an upstream 500 with an HTML body has been relayed
C1_Witness ==
    /\ call_pc = "done"
    /\ call_up = Response(500, "<html>Bad Gateway</html>")
    /\ call_resp.status = 500
    /\ call_resp.body[1] = "text"

TimeoutExceptions == {"ReadTimeout", "ConnectTimeout"}
ConnectionExceptions == {"ConnectionError"}

\* C2: a forward call to a registered service that got no upstream response
\* answers 504 after a timeout, 503 after a failed connection and 500 with the
\* error text after any other exception, and the error body always carries
\* the service name and the sub-path.
C2_FailureClassified ==
    (call_pc = "done" /\ CallAllowed /\ CallRegistered /\ call_up[1] # "response") =>
        /\ call_resp.body[1] = "json"
        /\ HasField(call_resp.body[2], "service")
        /\ Field(call_resp.body[2], "service") = JStr(call_req.service)
        /\ HasField(call_resp.body[2], "endpoint")
        /\ Field(call_resp.body[2], "endpoint") = JStr(call_req.endpoint)
        /\ (call_up[1] = "exception" /\ call_up[3] \in TimeoutExceptions)
              => call_resp.status = 504
        /\ (call_up[1] = "exception" /\ call_up[3] \in ConnectionExceptions)
              => call_resp.status = 503
        /\ (call_up[1] = "exception"
                /\ call_up[3] \notin TimeoutExceptions \cup ConnectionExceptions)
              => /\ call_resp.status = 500
                 /\ Field(call_resp.body[2], "error") = JStr(ExcText(call_up[3]))
        /\ call_up[1] = "none" => call_resp.status = 500

\* a connect timeout has been answered with 504
C2_Witness ==
    /\ call_pc = "done"
    /\ call_up = Raised("ConnectTimeout")
    /\ call_resp.status = 504
    /\ Field(call_resp.body[2], "service") = JStr(call_req.service)

\* C3: a forward call to a name that is not in the registry answers 404 with
\* a body listing every registry name, each once, for either method, and
\* issues nothing.
C3_NotFoundListsRegistry ==
    (call_pc = "done" /\ CallAllowed /\ ~CallRegistered) =>
        /\ call_resp.status = 404
        /\ call_resp.body[1] = "json"
        /\ HasField(call_resp.body[2], "available")
        /\ LET available == Field(call_resp.body[2], "available")[2]
           IN /\ { available[i] : i \in 1..Len(available) } = { JStr(n) : n \in Loaded }
              /\ Len(available) = Cardinality(Loaded)
        /\ call_out = << >>

\* a GET for an unknown service has been answered
C3_Witness ==
    /\ call_pc = "done"
    /\ call_req.service = UnknownService
    /\ call_req.method = "GET"
    /\ call_req.endpoint = "cve/CVE-2024-1234"
    /\ call_resp.status = 404

\* what the gate owes a request with these credentials
GateHolds(pc, req, resp, untouched) ==
    /\ (pc = "done" /\ ProvidedKey(req) = None) => (resp.status = 401 /\ untouched)
    /\ (pc = "done" /\ ProvidedKey(req) \notin {None, secret})
          => (resp.status = 403 /\ untouched)
    /\ (pc = "done" /\ ProvidedKey(req) = secret) => resp.status \notin {401, 403}
    /\ pc \notin {"idle", "done"} => ProvidedKey(req) = secret
    /\ ~untouched => ProvidedKey(req) = secret

\* C4: with a secret configured, a request without a key gets 401 and one with
\* another key gets 403, on every operation but /health, and neither issues a
\* forward or a probe; only the matching key reaches a handler.  Without a
\* secret nothing is rejected.  /health always answers ok.
C4_AccessGate ==
    /\ secret # None =>
          /\ GateHolds(call_pc, call_req, call_resp, call_out = << >>)
          /\ GateHolds(st_pc, st_req, st_resp, st_probes = << >> /\ st_pc # "probing")
          /\ doc_req.route \in DocRoutes => GateHolds(doc_pc, doc_req, doc_resp, TRUE)
    /\ secret = None =>
          /\ call_resp.status \notin {401, 403}
          /\ st_resp.status \notin {401, 403}
          /\ doc_resp.status \notin {401, 403}
    /\ (doc_pc = "done" /\ doc_req.route = "health")
          => doc_resp = [status |-> 200, body |-> <<"text", "ok">>]

\* with a secret configured: a forward call with a wrong key was refused, a
\* snapshot without a key was refused, a documentation request whose header
\* key is wrong was refused although its query key is right
C4_Witness ==
    /\ secret = SecretValue
    /\ call_pc = "done" /\ ProvidedKey(call_req) = WrongKey /\ call_resp.status = 403
    /\ call_req.service = "nmap" /\ call_out = << >>
    /\ st_pc = "done" /\ ProvidedKey(st_req) = None /\ st_resp.status = 401
    /\ doc_pc = "done" /\ doc_req.header = WrongKey /\ doc_req.query = SecretValue
    /\ doc_resp.status = 403

\* C5: the snapshot /status returns holds every registry entry exactly once
\* and no other name, whatever the probes did.
C5_SnapshotTotal ==
    (st_pc = "done" /\ StatusAllowed) =>
        /\ st_resp = [status |-> 200, body |-> <<"results", results>>]
        /\ \A n \in Loaded :
              Cardinality({ i \in 1..Len(results) : results[i][1] = n }) = 1
        /\ \A i \in 1..Len(results) : results[i][1] \in Loaded

\* a snapshot has been returned after every probe raised
C5_Witness ==
    /\ st_pc = "done"
    /\ Len(st_probes) = MaxServices
    /\ \A i \in 1..Len(st_probes) : st_probes[i][1] = "exception"
    /\ Len(results) = MaxServices

\* C6: the probes of one snapshot run concurrently, so the snapshot takes as
\* long as its slowest probe, at most one probe budget, and never the sum of
\* the probes' latencies.
C6_ProbesConcurrent ==
    (st_pc = "done" /\ StatusAllowed) =>
        (st_elapsed = st_slowest /\ st_elapsed <= ProbeTimeout)

\* C7: the entry of a service is online after a 200, error after any other
\* status code and offline after no response, from its own probe alone, and
\* its address is the registry's.
C7_ProbeClassified ==
    \A i \in 1..Len(results) :
        /\ i <= Len(st_probes)
        /\ results[i][1] = SelectSeq(ServiceOrder, LAMBDA n : n \in Loaded)[i]
        /\ results[i][2].url = ServiceUrl(results[i][1])
        /\ (st_probes[i][1] = "response" /\ st_probes[i][2] = 200)
              => results[i][2].status = "online"
        /\ (st_probes[i][1] = "response" /\ st_probes[i][2] # 200)
              => results[i][2].status = "error"
        /\ st_probes[i][1] = "exception" => results[i][2].status = "offline"

\* a snapshot holds an online entry after a 200, an error entry after a 204
\* and an offline entry after a timeout
C7_Witness ==
    /\ st_pc = "done"
    /\ \E i, j, k \in 1..Len(results) :
          /\ st_probes[i] = Response(200, "") /\ results[i][2].status = "online"
          /\ st_probes[j] = Response(204, "") /\ results[j][2].status = "error"
          /\ st_probes[k] = Raised("ReadTimeout") /\ results[k][2].status = "offline"

\* C8: a POST forwards the JSON value of the inbound body, an absent body is
\* forwarded as {} and is never answered with a gateway error, and a GET
\* forwards the inbound query parameters as they came.
C8_ForwardUnchanged ==
    /\ (call_out # << >> /\ call_req.method = "POST" /\ call_req.body # None)
          => JsonLoads(call_out[1].json) = JsonLoads(call_req.body)
    /\ (call_out # << >> /\ call_req.method = "POST" /\ call_req.body = None)
          => call_out[1].json = "{}"
    /\ (call_pc = "done" /\ CallAllowed /\ CallRegistered
            /\ call_req.method = "POST" /\ call_req.body \in {None, ""})
          => (call_out # << >> /\ call_out[1].json = "{}")
    /\ (call_out # << >> /\ call_req.method = "GET")
          => call_out[1].params = call_req.args

\* C9: a forward call to a registered service makes exactly one outbound
\* attempt: never a second one, and no outcome without the one.
C9_ExactlyOneAttempt ==
    /\ Len(call_out) <= 1
    /\ (call_pc = "done" /\ CallAllowed /\ CallRegistered) => Len(call_out) = 1

\* C10: the registry and the descriptors keep their startup values through
\* every interleaving of forward calls, snapshots and documentation requests,
\* and a step of one request changes nothing another request reads.
C10_SharedStateFrozen ==
    /\ [](SERVICES = SERVICES0 /\ DOCS = DOCS0)
    /\ [][ /\ call_vars' # call_vars => UNCHANGED <<st_vars, doc_vars>>
           /\ st_vars' # st_vars => UNCHANGED <<call_vars, doc_vars>>
           /\ doc_vars' # doc_vars => UNCHANGED <<call_vars, st_vars>> ]_vars

\* a forward call is blocked upstream while a snapshot is past its first
\* probe and a documentation request has been answered
C10_Witness ==
    /\ call_pc = "waiting"
    /\ st_pc = "probing" /\ st_i > 1
    /\ doc_pc = "done" /\ doc_resp.status = 200

====
